---- MODULE Spec2Model ----
(***************************************************************************)
(* A model of Firmware/aux_pin.c of the Bus Pirate: the AUX pin handler    *)
(* (digital I/O, PWM and servo generation, frequency counting).            *)
(*                                                                         *)
(* The peripheral registers the file writes are the variables; every       *)
(* public function is an action.  The functions that busy-wait on a        *)
(* hardware flag or block in a prompt are split at the wait: pc names the  *)
(* wait the caller is in ("idle" between two calls).                       *)
(***************************************************************************)
EXTENDS Integers, Sequences, FiniteSets, TLC

VARIABLES
    state,          \* aux_state_t state: pwm_frequency, pwm_duty_cycle, mode
    T2CON,          \* timer 2 control register
    T4CON,          \* timer 4 control register
    OC5CON,         \* output compare 5 control register
    PR2,            \* timer 2 period register
    OC5R,           \* output compare 5 compare register
    OC5RS,          \* output compare 5 secondary compare register
    AUXPIN_RPOUT,   \* RPOR10bits.RP20R: the peripheral that drives the AUX pin
    T2CKR,          \* RPINR3bits.T2CKR: the pin that clocks timer 2
    ICR,            \* RPINR7bits.IC1R and IC2R: the pins of input capture 1, 2
    ICCON,          \* IC1CON and IC2CON (IC1CON1, IC2CON1 on the v4 build)
    T5IF,           \* IFS1bits.T5IF: timer 4/5 period match flag
    DIR,            \* direction (TRIS) bit of each physical pin
    LAT,            \* level (LAT) bit of each physical pin
    alternate_aux,  \* mode_configuration.alternate_aux
    BUSPIRATEV4,    \* the build: TRUE for BUSPIRATEV4, FALSE for BUSPIRATEV3
    pc,             \* where the running call waits, "idle" between calls
    loc,            \* the locals a waiting call keeps across its wait
    log,            \* register writes, messages and prompts of the last call
    ret,            \* the value the last call returned
    last,           \* the last call made and its arguments
    arg             \* the first call of a run that starts with a given call

vars == <<state, T2CON, T4CON, OC5CON, PR2, OC5R, OC5RS, AUXPIN_RPOUT, T2CKR,
          ICR, ICCON, T5IF, DIR, LAT, alternate_aux, BUSPIRATEV4, pc, loc,
          log, ret, last, arg>>

(***************************************************************************)
(* aux_mode_t                                                              *)
(***************************************************************************)
AUX_MODE_IO == 0
AUX_MODE_FREQUENCY == 1
AUX_MODE_PWM == 2

(***************************************************************************)
(* Constants of the file and of the register layout it relies on.          *)
(***************************************************************************)
PWM_DIVISOR_PRESCALER_1_256 == 62
PWM_DIVISOR_PRESCALER_1_64 == 250
PWM_DIVISOR_PRESCALER_1_8 == 2000
PWM_DIVISOR_PRESCALER_1_1 == 16000

AUXPIN_RPIN == 20
T2CKR_NONE == 31
OC5_IO == 22
OC_PWM_MODE == 6

TON == 32768
TCKPS1 == 32
TCKPS0 == 16
T32 == 8
TCS == 2

INPUT == 1
OUTPUT == 0
HIGH == 1
LOW == 0

UINT16 == 65536

\* The angles the servo command's repeat-entry loop takes in one call: the
\* loop itself is unbounded.
MaxServoEntries == 1

\* The largest value of mode_configuration.alternate_aux in the runs that
\* take it beyond the pins a build has.
MaxPinIndex == 7

\* The largest edge count whose capture loop is followed capture by
\* capture.
MaxSamples == 3

(***************************************************************************)
(* Bit access to a 16-bit register: REGbits.BIT = ON / OFF.                *)
(***************************************************************************)
BitIsSet(reg, bit) == (reg \div bit) % 2 = 1

BitOn(reg, bit) == IF BitIsSet(reg, bit) THEN reg ELSE reg + bit

BitOff(reg, bit) == IF BitIsSet(reg, bit) THEN reg - bit ELSE reg

(***************************************************************************)
(* IEEE-754 single precision, as far as the file uses it (PWM_pd is a      *)
(* float): non-negative values m * 2^e with m = 0 or 2^23 <= m < 2^24,     *)
(* round to nearest, ties to even.  Every intermediate stays below 2^31.   *)
(***************************************************************************)
F32_ONE == 8388608

F32_TWO == 16777216

RECURSIVE F32Narrow(_, _, _)
\* q * 2^e with q >= 2^24, plus a non-zero rest below the last bit when
\* sticky: shifted right until it has 25 bits.
F32Narrow(q, e, sticky) ==
    IF q >= 2 * F32_TWO
    THEN F32Narrow(q \div 2, e + 1, sticky \/ (q % 2 = 1))
    ELSE [q |-> q, e |-> e, sticky |-> sticky]

F32Round(q, e, sticky) ==
    LET n == F32Narrow(q, e, sticky)
        m == n.q \div 2
        up == (n.q % 2 = 1) /\ (n.sticky \/ (m % 2 = 1))
        r == IF up THEN m + 1 ELSE m
    IN  IF r = F32_TWO THEN [m |-> F32_ONE, e |-> n.e + 2]
        ELSE [m |-> r, e |-> n.e + 1]

RECURSIVE F32Normal(_, _)
F32Normal(m, e) ==
    IF m = 0 THEN [m |-> 0, e |-> 0]
    ELSE IF m < F32_ONE THEN F32Normal(2 * m, e - 1)
    ELSE [m |-> m, e |-> e]

\* (float) n for an integer 0 <= n < 2^24: exact.
F32FromInt(n) == F32Normal(n, 0)

RECURSIVE F32DivBits(_, _, _, _)
\* n more quotient bits of r / d appended to q, by long division.
F32DivBits(q, r, d, n) ==
    IF n = 0 THEN [q |-> q, r |-> r]
    ELSE LET b == IF r \div d >= 1 THEN 1 ELSE 0
         IN  F32DivBits(2 * q + b, 2 * (r - b * d), d, n - 1)

\* x / y, y # 0.
F32Div(x, y) ==
    IF x.m = 0 THEN x
    ELSE LET d == F32DivBits(0, x.m, y.m, 26)
         IN  F32Round(d.q, x.e - y.e - 25, d.r # 0)

\* x * y: the 48-bit product of the mantissas, in 12-bit halves.
F32Mul(x, y) ==
    IF x.m = 0 \/ y.m = 0 THEN [m |-> 0, e |-> 0]
    ELSE LET a == x.m \div 4096
             b == x.m % 4096
             c == y.m \div 4096
             d == y.m % 4096
             mid == a * d + b * c
             lo2 == b * d + (mid % 4096) * 4096
             lo == lo2 % F32_TWO
             hi == a * c + (mid \div 4096) + (lo2 \div F32_TWO)
         IN  F32Round(hi * 4 + (lo \div 4194304), x.e + y.e + 22,
                      lo % 4194304 # 0)

\* x + y.
F32Add(x, y) ==
    IF x.m = 0 THEN y
    ELSE IF y.m = 0 THEN x
    ELSE LET big == IF x.e >= y.e THEN x ELSE y
             small == IF x.e >= y.e THEN y ELSE x
             sh == big.e - small.e
             s4 == IF sh > 26 THEN 0 ELSE (small.m * 4) \div (2 ^ sh)
             rest == IF sh > 26 THEN TRUE ELSE (small.m * 4) % (2 ^ sh) # 0
         IN  F32Round(big.m * 4 + s4, big.e - 2, rest)

\* (unsigned int) x: the fraction is dropped, the result kept to 16 bits.
F32ToUInt(x) ==
    IF x.m = 0 THEN 0
    ELSE IF x.e >= 0 THEN (x.m * (2 ^ x.e)) % UINT16
    ELSE IF x.e < -24 THEN 0
    ELSE (x.m \div (2 ^ (0 - x.e))) % UINT16

(***************************************************************************)
(* The calls are modelled by the sequence of writes they make, in program  *)
(* order: a write is a register (or state field) and the value stored; a   *)
(* message printed and a prompt answered are entries of the same sequence. *)
(***************************************************************************)
W(reg, val) == [reg |-> reg, val |-> val]

MSG(n) == W("BPMSG", n)

\* getnumber(...) = val: the answer the prompt returned.
PROMPT(val) == W("getnumber", val)

Writes(w, reg) == {i \in DOMAIN w : w[i].reg = reg}

\* The value of reg after the writes w, old before them.
Final(w, reg, old) ==
    LET at == Writes(w, reg)
    IN  IF at = {} THEN old ELSE w[CHOOSE i \in at : \A j \in at : j <= i].val

\* The registers the writes w store to.
Written(w) == {w[i].reg : i \in DOMAIN w}

Pins == {"BP_AUX0", "BP_CS", "BP_AUX1", "BP_AUX2"}

DirReg(pin) == CASE pin = "BP_AUX0" -> "BP_AUX0_DIR"
                 [] pin = "BP_CS" -> "BP_CS_DIR"
                 [] pin = "BP_AUX1" -> "BP_AUX1_DIR"
                 [] pin = "BP_AUX2" -> "BP_AUX2_DIR"

\* The registers after the writes w.  AUXPIN_DIR is BP_AUX0_DIR.
\* The same, given the registers wr that w stores to.
Set(w, wr, reg, old) == IF reg \in wr THEN Final(w, reg, old) ELSE old

Apply(w, wr) ==
    /\ state' = [pwm_frequency |-> Set(w, wr, "pwm_frequency", state.pwm_frequency),
                 pwm_duty_cycle |-> Set(w, wr, "pwm_duty_cycle", state.pwm_duty_cycle),
                 mode |-> Set(w, wr, "mode", state.mode)]
    /\ T2CON' = Set(w, wr, "T2CON", T2CON)
    /\ T4CON' = Set(w, wr, "T4CON", T4CON)
    /\ OC5CON' = Set(w, wr, "OC5CON", OC5CON)
    /\ PR2' = Set(w, wr, "PR2", PR2)
    /\ OC5R' = Set(w, wr, "OC5R", OC5R)
    /\ OC5RS' = Set(w, wr, "OC5RS", OC5RS)
    /\ AUXPIN_RPOUT' = Set(w, wr, "AUXPIN_RPOUT", AUXPIN_RPOUT)
    /\ T2CKR' = Set(w, wr, "T2CKR", T2CKR)
    /\ ICR' = [IC1R |-> Set(w, wr, "IC1R", ICR.IC1R),
               IC2R |-> Set(w, wr, "IC2R", ICR.IC2R)]
    /\ ICCON' = [IC1CON |-> Set(w, wr, "IC1CON", ICCON.IC1CON),
                 IC2CON |-> Set(w, wr, "IC2CON", ICCON.IC2CON)]
    /\ T5IF' = Set(w, wr, "T5IF", T5IF)
    /\ DIR' = [p \in Pins |-> Set(w, wr, DirReg(p), DIR[p])]
    /\ LAT' = [p \in Pins |-> Set(w, wr, p, LAT[p])]

Commit(w) == \E v \in {w} : \E wr \in {Written(v)} : Apply(v, wr) /\ log' = v

\* The same for the writes a call makes after a wait.
Continue(w) ==
    \E v \in {w} : \E wr \in {Written(v)} : Apply(v, wr) /\ log' = log \o v

\* A call and its arguments: more is cmdbuf[cmdstart + 1] # 0 for the
\* commands that read the command line.
Call(op, args, more) == [op |-> op, args |-> args, more |-> more]

NoCall == Call("none", <<>>, FALSE)

Enter(call) ==
    /\ pc = "idle"
    /\ last' = call

\* The locals of the calls that wait: f of bp_frequency_counter_setup (the
\* count its sampler runs with), entryloop of bp_servo_setup, and index,
\* counter_high, counter_low and total_samples of average_sample_frequency,
\* with based = 1 once the baseline capture is taken.  total_samples is a
\* uint32_t, held as its two 16-bit halves.
NoLocals ==
    [f |-> 0, entryloop |-> 0, based |-> 0, index |-> 0, counter_high |-> 0,
     counter_low |-> 0, total_samples |-> [hi |-> 0, lo |-> 0]]

(***************************************************************************)
(* static aux_state_t state = {0}; the peripherals as they are after       *)
(* reset: timers and output compare off, no peripheral on the AUX pin, no  *)
(* pin on the timer 2 clock or the capture inputs, every pin an input.     *)
(***************************************************************************)
Reset ==
    /\ state = [pwm_frequency |-> 0, pwm_duty_cycle |-> 0, mode |-> AUX_MODE_IO]
    /\ T2CON = 0
    /\ T4CON = 0
    /\ OC5CON = 0
    /\ PR2 = UINT16 - 1
    /\ OC5R = 0
    /\ OC5RS = 0
    /\ AUXPIN_RPOUT = 0
    /\ T2CKR = T2CKR_NONE
    /\ ICR = [IC1R |-> T2CKR_NONE, IC2R |-> T2CKR_NONE]
    /\ ICCON = [IC1CON |-> 0, IC2CON |-> 0]
    /\ T5IF = 0
    /\ DIR = [p \in Pins |-> INPUT]
    /\ LAT = [p \in Pins |-> LOW]
    /\ pc = "idle"
    /\ loc = NoLocals
    /\ log = <<>>
    /\ ret = <<>>
    /\ last = NoCall

\* Either build, with any of the pins the build has selected: AUX0 or CS,
\* and AUX1 or AUX2 on the v4 board.
Init ==
    /\ Reset
    /\ BUSPIRATEV4 \in BOOLEAN
    /\ alternate_aux \in (IF BUSPIRATEV4 THEN 0 .. 3 ELSE 0 .. 1)
    /\ arg = NoCall

(***************************************************************************)
(* setup_prescaler_divisor: the divisor returned and the writes made to    *)
(* the prescaler bits of T2CON, whose value on entry is t2con.             *)
(***************************************************************************)
Prescaler(divisor, t2con, bit1, bit0) ==
    LET a == IF bit1 THEN BitOn(t2con, TCKPS1) ELSE BitOff(t2con, TCKPS1)
        b == IF bit0 THEN BitOn(a, TCKPS0) ELSE BitOff(a, TCKPS0)
    IN  [divisor |-> divisor, writes |-> <<W("T2CON", a), W("T2CON", b)>>]

setup_prescaler_divisor_no_1_1(frequency, t2con) ==
    IF frequency < 4
    THEN Prescaler(PWM_DIVISOR_PRESCALER_1_256, t2con, TRUE, TRUE)
    ELSE IF frequency < 31
    THEN Prescaler(PWM_DIVISOR_PRESCALER_1_64, t2con, TRUE, FALSE)
    ELSE Prescaler(PWM_DIVISOR_PRESCALER_1_8, t2con, FALSE, TRUE)

setup_prescaler_divisor_le(frequency, t2con) ==
    IF frequency <= 4
    THEN Prescaler(PWM_DIVISOR_PRESCALER_1_256, t2con, TRUE, TRUE)
    ELSE IF frequency <= 31
    THEN Prescaler(PWM_DIVISOR_PRESCALER_1_64, t2con, TRUE, FALSE)
    ELSE IF frequency <= 245
    THEN Prescaler(PWM_DIVISOR_PRESCALER_1_8, t2con, FALSE, TRUE)
    ELSE Prescaler(PWM_DIVISOR_PRESCALER_1_1, t2con, FALSE, FALSE)

setup_prescaler_divisor(frequency, t2con) ==
    IF frequency < 4
    THEN Prescaler(PWM_DIVISOR_PRESCALER_1_256, t2con, TRUE, TRUE)
    ELSE IF frequency < 31
    THEN Prescaler(PWM_DIVISOR_PRESCALER_1_64, t2con, TRUE, FALSE)
    ELSE IF frequency < 245
    THEN Prescaler(PWM_DIVISOR_PRESCALER_1_8, t2con, FALSE, TRUE)
    ELSE Prescaler(PWM_DIVISOR_PRESCALER_1_1, t2con, FALSE, FALSE)

\* The value of T2CON after setup_prescaler_divisor's writes.
AfterPrescaler(p) == p.writes[Len(p.writes)].val

(***************************************************************************)
(* bp_update_pwm(frequency, duty_cycle), in uint16_t arithmetic.           *)
(***************************************************************************)
pwm_off_keeps_routing == <<W("mode", AUX_MODE_IO)>>

pwm_off_keeps_mode == <<W("AUXPIN_RPOUT", 0)>>

\* if (frequency == 0): the AUX pin is detached from the PWM generator.
pwm_off == <<W("AUXPIN_RPOUT", 0), W("mode", AUX_MODE_IO)>>

pwm_period_whole(divisor, frequency) == (divisor \div frequency) % UINT16

\* period = (divisor / frequency) - 1
pwm_period(divisor, frequency) == ((divisor \div frequency) - 1) % UINT16

\* cycle = (period * duty_cycle) / 100
pwm_cycle(period, duty_cycle) == ((period * duty_cycle) % UINT16) \div 100

update_pwm(frequency, duty_cycle) ==
    LET p == setup_prescaler_divisor(frequency, 0)
        period == pwm_period(p.divisor, frequency)
        cycle == pwm_cycle(period, duty_cycle)
    IN  <<W("pwm_frequency", frequency), W("pwm_duty_cycle", duty_cycle),
          W("T2CON", 0), W("T4CON", 0), W("OC5CON", 0)>> \o
        (IF frequency = 0
         THEN pwm_off
         ELSE p.writes \o
              <<W("PR2", period), W("AUXPIN_RPOUT", OC5_IO), W("OC5R", cycle),
                W("OC5RS", cycle), W("OC5CON", OC_PWM_MODE),
                W("T2CON", BitOn(AfterPrescaler(p), TON)),
                W("mode", AUX_MODE_PWM)>>)

bp_update_pwm(frequency, duty_cycle) ==
    /\ Enter(Call("bp_update_pwm", <<frequency, duty_cycle>>, FALSE))
    /\ Commit(update_pwm(frequency, duty_cycle))
    /\ ret' = <<>>
    /\ UNCHANGED <<alternate_aux, BUSPIRATEV4, pc, loc, arg>>

bp_update_duty_cycle_swapped(duty_cycle) ==
    /\ Enter(Call("bp_update_duty_cycle", <<duty_cycle>>, FALSE))
    /\ Commit(update_pwm(duty_cycle, state.pwm_frequency))
    /\ ret' = <<>>
    /\ UNCHANGED <<alternate_aux, BUSPIRATEV4, pc, loc, arg>>

bp_update_duty_cycle(duty_cycle) ==
    /\ Enter(Call("bp_update_duty_cycle", <<duty_cycle>>, FALSE))
    /\ Commit(update_pwm(state.pwm_frequency, duty_cycle))
    /\ ret' = <<>>
    /\ UNCHANGED <<alternate_aux, BUSPIRATEV4, pc, loc, arg>>

(***************************************************************************)
(* The command line, read by proc_menu's getint(): the numbers that follow *)
(* the command, in order.  getint() returns the next one, or 0 with         *)
(* command_error set when there is none.                                   *)
(***************************************************************************)
getint(cmd, k) == IF Len(cmd) >= k THEN cmd[k] ELSE 0

getint_error(cmd, k) == Len(cmd) < k

StopTimers == <<W("T2CON", 0), W("T4CON", 0), W("OC5CON", 0)>>

(***************************************************************************)
(* bp_pwm_setup: PWM_freq and PWM_period are unsigned int, PWM_pd a float. *)
(* ans_freq and ans_duty are what getnumber() returns if it is asked.      *)
(***************************************************************************)
\* PWM_pd /= 100; PWM_dutycycle = PWM_period * PWM_pd, in float, stored to
\* an unsigned int.
pwm_dutycycle(PWM_period, duty) ==
    F32ToUInt(F32Mul(F32FromInt(PWM_period),
                     F32Div(F32FromInt(duty), F32FromInt(100))))

pwm_setup(more, cmd, ans_freq, ans_duty) ==
    LET off == IF state.mode = AUX_MODE_PWM
               THEN <<W("AUXPIN_RPOUT", 0), MSG(1028), W("mode", AUX_MODE_IO)>>
               ELSE <<>>
        freq0 == getint(cmd, 1)
        pd0 == getint(cmd, 2)
        done == (IF freq0 > 0 /\ freq0 < 4000 THEN 1 ELSE 0) +
                (IF pd0 > 0 /\ pd0 < 100 THEN 1 ELSE 0)
        PWM_freq == IF done # 2 THEN ans_freq ELSE freq0
        p == setup_prescaler_divisor(PWM_freq, 0)
        PWM_period == ((p.divisor \div PWM_freq) - 1) % UINT16
        PWM_dutycycle == pwm_dutycycle(PWM_period,
                                       IF done # 2 THEN ans_duty ELSE pd0)
    IN  IF state.mode = AUX_MODE_PWM /\ ~more
        THEN StopTimers \o off
        ELSE StopTimers \o off \o
             <<W("PWM_freq", freq0), W("PWM_pd", pd0)>> \o
             (IF done # 2
              THEN <<W("command_error", 0), MSG(1029), MSG(1030),
                     PROMPT(ans_freq), W("PWM_freq", ans_freq)>>
              ELSE <<>>) \o
             p.writes \o
             (IF done # 2
              THEN <<MSG(1033), PROMPT(ans_duty), W("PWM_pd", ans_duty)>>
              ELSE <<>>) \o
             <<W("AUXPIN_RPOUT", OC5_IO), W("OC5R", PWM_dutycycle),
               W("OC5RS", PWM_dutycycle), W("OC5CON", OC_PWM_MODE),
               W("PR2", PWM_period), W("T2CON", BitOn(AfterPrescaler(p), TON)),
               MSG(1034), W("mode", AUX_MODE_PWM)>>

bp_pwm_setup(more, cmd, ans_freq, ans_duty) ==
    /\ Enter(Call("bp_pwm_setup", cmd, more))
    /\ Commit(pwm_setup(more, cmd, ans_freq, ans_duty))
    /\ ret' = <<>>
    /\ UNCHANGED <<alternate_aux, BUSPIRATEV4, pc, loc, arg>>

(***************************************************************************)
(* bp_servo_setup.  servoset is the code from the label of that name to    *)
(* the test of entryloop, for the angle PWM_pd holds and T2CON as it is.   *)
(***************************************************************************)
servo_dutycycle_int(PWM_period, angle) ==
    (PWM_period * (angle \div 3500) + 62) % UINT16

\* PWM_pd /= 3500; PWM_dutycycle = (PWM_period * PWM_pd) + 62, in float,
\* stored to an unsigned int.
servo_dutycycle(PWM_period, angle) ==
    F32ToUInt(F32Add(F32Mul(F32FromInt(PWM_period),
                            F32Div(F32FromInt(angle), F32FromInt(3500))),
                     F32FromInt(62)))

servoset_1_64(angle, t2con) ==
    LET a == BitOn(t2con, TCKPS1)
        b == BitOff(a, TCKPS0)
        PWM_period == 1250
        PWM_dutycycle == servo_dutycycle(PWM_period, angle)
    IN  <<W("T2CON", a), W("T2CON", b), W("AUXPIN_RPOUT", OC5_IO),
          W("OC5R", PWM_dutycycle), W("OC5RS", PWM_dutycycle),
          W("OC5CON", OC_PWM_MODE), W("PR2", PWM_period),
          W("T2CON", BitOn(b, TON)), MSG(1255), W("mode", AUX_MODE_PWM)>>

servoset(angle, t2con) ==
    LET a == BitOn(t2con, TCKPS1)
        b == BitOn(a, TCKPS0)
        PWM_period == 1250
        PWM_dutycycle == servo_dutycycle(PWM_period, angle)
    IN  <<W("T2CON", a), W("T2CON", b), W("AUXPIN_RPOUT", OC5_IO),
          W("OC5R", PWM_dutycycle), W("OC5RS", PWM_dutycycle),
          W("OC5CON", OC_PWM_MODE), W("PR2", PWM_period),
          W("T2CON", BitOn(b, TON)), MSG(1255), W("mode", AUX_MODE_PWM)>>

servo_stops_with_arguments(more) == state.mode = AUX_MODE_PWM

\* The call stops PWM and returns.
servo_stops(more) == state.mode = AUX_MODE_PWM /\ ~more

servo_prompts_on_error(cmd) == getint_error(cmd, 1)

\* The call asks for the angle, and will ask again (entryloop = 1).
servo_prompts(cmd) == getint_error(cmd, 1) \/ getint(cmd, 1) > 180

servo_setup(more, cmd, ans) ==
    IF servo_stops(more)
    THEN StopTimers \o
         <<W("AUXPIN_RPOUT", 0), MSG(1028), W("mode", AUX_MODE_IO)>>
    ELSE IF servo_prompts(cmd)
    THEN StopTimers \o
         <<W("PWM_pd", getint(cmd, 1)), W("command_error", 0), MSG(1254),
           PROMPT(ans), W("PWM_pd", ans)>> \o
         servoset(ans, 0)
    ELSE StopTimers \o <<W("PWM_pd", getint(cmd, 1))>> \o
         servoset(getint(cmd, 1), 0)

bp_servo_setup(more, cmd, ans) ==
    /\ Enter(Call("bp_servo_setup", cmd, more))
    /\ Commit(servo_setup(more, cmd, ans))
    /\ IF ~servo_stops(more) /\ servo_prompts(cmd)
       THEN pc' = "servo_entry" /\ loc' = [loc EXCEPT !.entryloop = 1]
       ELSE pc' = "idle" /\ loc' = NoLocals
    /\ ret' = <<>>
    /\ UNCHANGED <<alternate_aux, BUSPIRATEV4, arg>>

\* getnumber(-1, 0, 180, 1) returns ans: a negative one leaves the loop.
servo_entry(ans) ==
    /\ pc = "servo_entry"
    /\ ans >= 0 => loc.entryloop <= MaxServoEntries
    /\ IF ans < 0
       THEN /\ Continue(<<PROMPT(ans), W("PWM_pd", ans), W("bpBR", 0)>>)
            /\ pc' = "idle"
            /\ loc' = NoLocals
       ELSE /\ Continue(<<PROMPT(ans), W("PWM_pd", ans)>> \o servoset(ans, T2CON))
            /\ pc' = pc
            /\ loc' = [loc EXCEPT !.entryloop = @ + 1]
    /\ UNCHANGED <<alternate_aux, BUSPIRATEV4, ret, last, arg>>

(***************************************************************************)
(* Digital I/O on the pin mode_configuration.alternate_aux selects.        *)
(***************************************************************************)
SelectedPin_always_aux0(alt) == "BP_AUX0"

\* The pin of the switch (BUSPIRATEV4) or of the if (BUSPIRATEV3): "none"
\* for the default case of the switch.
SelectedPin(alt) ==
    IF BUSPIRATEV4
    THEN CASE alt = 0 -> "BP_AUX0"
           [] alt = 1 -> "BP_CS"
           [] alt = 2 -> "BP_AUX1"
           [] alt = 3 -> "BP_AUX2"
           [] OTHER -> "none"
    ELSE IF alt = 0 THEN "BP_AUX0" ELSE "BP_CS"

PinWrites(pin, dir, level) ==
    IF pin = "none" THEN <<>> ELSE <<W(DirReg(pin), dir), W(pin, level)>>

PinDirection(pin, dir) ==
    IF pin = "none" THEN <<>> ELSE <<W(DirReg(pin), dir)>>

bp_aux_pin_set_high_impedance ==
    /\ Enter(Call("bp_aux_pin_set_high_impedance", <<>>, FALSE))
    /\ Commit(PinDirection(SelectedPin(alternate_aux), INPUT) \o <<MSG(1039)>>)
    /\ ret' = <<>>
    /\ UNCHANGED <<alternate_aux, BUSPIRATEV4, pc, loc, arg>>

bp_aux_pin_set_high ==
    /\ Enter(Call("bp_aux_pin_set_high", <<>>, FALSE))
    /\ Commit(PinWrites(SelectedPin(alternate_aux), OUTPUT, HIGH) \o <<MSG(1040)>>)
    /\ ret' = <<>>
    /\ UNCHANGED <<alternate_aux, BUSPIRATEV4, pc, loc, arg>>

bp_aux_pin_set_low ==
    /\ Enter(Call("bp_aux_pin_set_low", <<>>, FALSE))
    /\ Commit(PinWrites(SelectedPin(alternate_aux), OUTPUT, LOW) \o <<MSG(1041)>>)
    /\ ret' = <<>>
    /\ UNCHANGED <<alternate_aux, BUSPIRATEV4, pc, loc, arg>>

\* level is the level of the pin when it is sampled, two Nop() after it
\* was made an input.  The v4 build selects by alternate_aux & 0b11.
bp_aux_pin_read(level) ==
    /\ Enter(Call("bp_aux_pin_read", <<>>, FALSE))
    /\ LET pin == SelectedPin(IF BUSPIRATEV4 THEN alternate_aux % 4
                              ELSE alternate_aux)
       IN  /\ Commit(PinDirection(pin, INPUT) \o <<W("Nop", 0), W("Nop", 0)>>)
           /\ ret' = <<IF pin = "none" THEN LOW ELSE level>>
    /\ UNCHANGED <<alternate_aux, BUSPIRATEV4, pc, loc, arg>>

(***************************************************************************)
(* poll_frequency_counter_value, up to its wait for T5IF and after it.     *)
(* t2con and t4con are the control registers on entry.                     *)
(***************************************************************************)
poll_start(t2con, t4con) ==
    <<W("PR3", 65535), W("PR2", 65535), W("TMR3HLD", 0), W("TMR2", 0),
      W("TMR5HLD", 0), W("TMR4", 0), W("T4CON", BitOn(t4con, T32)),
      W("PR5", 244), W("PR4", 9216), W("T5IF", 0),
      W("T4CON", BitOn(BitOn(t4con, T32), TON)), W("T2CON", BitOn(t2con, TON))>>

poll_end(t2con, t4con) ==
    <<W("T2CON", BitOff(t2con, TON)), W("T4CON", BitOff(t4con, TON))>>

\* return (counter_high << 16) + counter_low
poll_return(count) == <<W("poll_frequency_counter_value", count)>>

\* The timer 4/5 pair reaches its period while a caller polls T5IF.
timer4_period_match ==
    /\ pc \in {"fc_coarse", "fc_fine", "mf_coarse", "mf_fine"}
    /\ BitIsSet(T4CON, TON)
    /\ T5IF = 0
    /\ T5IF' = 1
    /\ UNCHANGED <<state, T2CON, T4CON, OC5CON, PR2, OC5R, OC5RS, AUXPIN_RPOUT,
                   T2CKR, ICR, ICCON, DIR, LAT, alternate_aux, BUSPIRATEV4, pc,
                   loc, log, ret, last, arg>>

(***************************************************************************)
(* average_sample_frequency: its set-up, up to the capture loop, and what  *)
(* follows the loop.  The two builds use different timers and registers.   *)
(***************************************************************************)
sample_start ==
    <<W("IC2IF", 0), W("IC1IF", 0), W("IC2R", AUXPIN_RPIN),
      W("IC1R", AUXPIN_RPIN)>> \o
    (IF BUSPIRATEV4
     THEN <<W("TMR5HLD", 0), W("TMR4", 0), W("T4CON", TON + T32),
            W("IC2CON", 3075), W("IC2CON2", 20), W("IC1CON", 2051),
            W("IC1CON2", 20)>>
     ELSE <<W("TMR3HLD", 0), W("TMR2", 0), W("T2CON", TON + T32),
            W("IC2CON", 3), W("IC1CON", 131)>>)

sample_end(t2con, t4con) ==
    IF BUSPIRATEV4
    THEN <<W("IC1CON", 0), W("IC2CON", 0), W("T4CON", BitOff(t4con, TON))>>
    ELSE <<W("IC1CON", 0), W("IC2CON", 0), W("T2CON", BitOff(t2con, TON))>>

(***************************************************************************)
(* bp_frequency_counter_setup.  It waits in the coarse window              *)
(* ("fc_coarse"), in the window without prescaler ("fc_fine") and in the   *)
(* capture loop of average_sample_frequency ("fc_sample").                 *)
(***************************************************************************)
fc_teardown == <<W("T2CKR", T2CKR_NONE), W("T4CON", 0), W("T2CON", 0)>>

\* f = 16e<k> / p, stored to an unsigned long long: the long division of
\* 16 followed by k zeros by p, which the quotient of the doubles truncates
\* to for the periods of the model.
RECURSIVE ScaledDiv(_, _, _, _)
ScaledDiv(q, r, k, p) ==
    IF k = 0 THEN q
    ELSE ScaledDiv(q * 10 + ((r * 10) \div p), (r * 10) % p, k - 1, p)

frequency_of_period(k, p) == ScaledDiv(16 \div p, 16 % p, k, p)

\* bp_write_dec_byte, bp_write_dec_word and bp_write_dec_dword send the
\* decimal digits of n, the first of them not a zero unless n is 0.
RECURSIVE bp_write_dec(_)
bp_write_dec(n) ==
    IF n < 10 THEN <<W("UART1TX", 48 + n)>>
    ELSE bp_write_dec(n \div 10) \o <<W("UART1TX", 48 + (n % 10))>>

pad_zero_never(f, limit) == <<>>

pad_zero_above(f, limit) == IF f > limit THEN <<W("UART1TX", 48)>> ELSE <<>>

\* if (f < limit) UART1TX('0')
pad_zero(f, limit) == IF f < limit THEN <<W("UART1TX", 48)>> ELSE <<>>

\* bp_write_dec_dword_friendly(f / unit); UART1TX('.'); f = f % unit
fc_whole(f, unit) ==
    <<W("bp_write_dec_dword_friendly", f \div unit), W("UART1TX", 46)>>

\* The frequency printed for the average period p, from if (p > 400000) to
\* the end of the last else.
fc_print(p) ==
    IF p > 400000
    THEN LET f == frequency_of_period(11, p)
             g == f % 100000
         IN  fc_whole(f, 100000) \o pad_zero(g, 10000) \o pad_zero(g, 1000) \o
             pad_zero(g, 100) \o pad_zero(g, 10) \o bp_write_dec(g)
    ELSE IF p > 126491
    THEN LET f == frequency_of_period(10, p)
             g == f % 10000
         IN  fc_whole(f, 10000) \o pad_zero(g, 1000) \o pad_zero(g, 100) \o
             pad_zero(g, 10) \o bp_write_dec(g)
    ELSE IF p > 40000
    THEN LET f == frequency_of_period(9, p)
             g == f % 1000
         IN  fc_whole(f, 1000) \o pad_zero(g, 100) \o pad_zero(g, 10) \o
             bp_write_dec(g)
    ELSE IF p > 12649
    THEN LET f == frequency_of_period(8, p)
             g == f % 100
         IN  fc_whole(f, 100) \o pad_zero(g, 10) \o bp_write_dec(g)
    ELSE LET f == frequency_of_period(7, p)
             g == f % 10
         IN  fc_whole(f, 10) \o bp_write_dec(g)

fc_report_samples_zero(f) ==
    IF f > 3999
    THEN [writes |-> <<W("bp_write_dec_dword_friendly", f),
                       W("MSG_PWM_HZ_MARKER", 0)>> \o fc_teardown,
          pc |-> "idle"]
    ELSE [writes |-> <<MSG(1245), W("average_sample_frequency", f)>> \o
                     sample_start,
          pc |-> "fc_sample"]

\* From the test f > 3999 on: the writes, and where the call is then.
fc_report(f) ==
    IF f > 3999
    THEN [writes |-> <<W("bp_write_dec_dword_friendly", f),
                       W("MSG_PWM_HZ_MARKER", 0)>> \o fc_teardown,
          pc |-> "idle"]
    ELSE IF f > 0
    THEN [writes |-> <<MSG(1245), W("average_sample_frequency", f)>> \o
                     sample_start,
          pc |-> "fc_sample"]
    ELSE [writes |-> <<W("MSG_PWM_FREQUENCY_TOO_LOW", 0)>> \o fc_teardown,
          pc |-> "idle"]

fc_refused_in_frequency_mode == state.mode = AUX_MODE_FREQUENCY

\* if (state.mode == AUX_MODE_PWM): the call prints BPMSG1037 and returns.
fc_refused == state.mode = AUX_MODE_PWM

frequency_counter_setup ==
    IF fc_refused
    THEN <<MSG(1037)>>
    ELSE <<MSG(1038), W("T4CON", 0), W("T2CON", 0), W("BP_AUX0_DIR", 1),
           W("T2CKR", AUXPIN_RPIN), W("T2CON", 58)>> \o poll_start(58, 0)

bp_frequency_counter_setup ==
    /\ Enter(Call("bp_frequency_counter_setup", <<>>, FALSE))
    /\ Commit(frequency_counter_setup)
    /\ pc' = IF fc_refused THEN "idle" ELSE "fc_coarse"
    /\ ret' = <<>>
    /\ UNCHANGED <<alternate_aux, BUSPIRATEV4, loc, arg>>

\* The coarse window is over with count in TMR3HLD:TMR2.
fc_coarse_done(count) ==
    /\ pc = "fc_coarse"
    /\ T5IF = 1
    /\ LET stop == poll_end(T2CON, T4CON) \o poll_return(count)
           r == fc_report(count * 256)
       IN  IF count > 16383
           THEN /\ Continue(stop \o r.writes)
                /\ pc' = r.pc
                /\ loc' = [loc EXCEPT !.f = IF r.pc = "idle" THEN 0 ELSE count * 256]
           ELSE /\ Continue(stop \o <<MSG(1245), W("T2CON", 10)>> \o
                            poll_start(10, Final(stop, "T4CON", T4CON)))
                /\ pc' = "fc_fine"
                /\ loc' = loc
    /\ UNCHANGED <<alternate_aux, BUSPIRATEV4, ret, last, arg>>

\* The window without prescaler is over with count in TMR3HLD:TMR2.
fc_fine_done(count) ==
    /\ pc = "fc_fine"
    /\ T5IF = 1
    /\ LET r == fc_report(count)
       IN  /\ Continue(poll_end(T2CON, T4CON) \o poll_return(count) \o r.writes)
           /\ pc' = r.pc
           /\ loc' = [loc EXCEPT !.f = IF r.pc = "idle" THEN 0 ELSE count]
    /\ UNCHANGED <<alternate_aux, BUSPIRATEV4, ret, last, arg>>

\* The capture loop is over and average_sample_frequency returns
\* total_samples / count = p.
fc_sample_done(p) ==
    /\ pc = "fc_sample"
    /\ Continue(sample_end(T2CON, T4CON) \o <<W("p", p)>> \o fc_print(p) \o
                <<W("MSG_PWM_HZ_MARKER", 0)>> \o fc_teardown)
    /\ pc' = "idle"
    /\ loc' = NoLocals
    /\ UNCHANGED <<alternate_aux, BUSPIRATEV4, ret, last, arg>>

(***************************************************************************)
(* The capture loop of average_sample_frequency, capture by capture, for   *)
(* the runs that follow it.  A uint32_t is two 16-bit halves; the capture  *)
(* registers are 16 bits wide and read into uint32_t variables.            *)
(***************************************************************************)
U32(hi, lo) == [hi |-> hi, lo |-> lo]

\* a + b in uint32_t.
U32Add(a, b) ==
    LET lo == a.lo + b.lo
    IN  U32((a.hi + b.hi + (lo \div UINT16)) % UINT16, lo % UINT16)

U32Diff_16_bits(x, y) == U32(0, (UINT16 + x - y) % UINT16)

\* x - y in uint32_t, for x and y that hold 16-bit captures.
U32Diff(x, y) ==
    IF x >= y THEN U32(0, x - y) ELSE U32(UINT16 - 1, UINT16 + x - y)

\* a << 16 in uint32_t.
U32Shl16(a) == U32(a.lo, 0)

\* a / n in uint32_t, for a quotient below 2^31.
U32Div(a, n) ==
    ((a.hi \div n) * UINT16) + ((((a.hi % n) * UINT16) + a.lo) \div n)

\* The 32-bit timer the capture units latch, delta ticks after it held
\* prev: IC1BUF gets its low word and IC2BUF its high word.
captured(prev, delta) == U32Add(prev, U32(delta \div UINT16, delta % UINT16))

\* ((current_high - counter_high) << 16) + (current_low - counter_low)
sample_delta(current, counter_high, counter_low) ==
    U32Add(U32Shl16(U32Diff(current.hi, counter_high)),
           U32Diff(current.lo, counter_low))

\* The two flush loops, which read and drop a capture left in the buffers
\* if there is one (stale), and the baseline capture cap that follows.
sample_baseline(stale, cap) ==
    /\ pc = "fc_sample"
    /\ loc.based = 0
    /\ Continue((IF stale
                 THEN <<W("current_low", 12345), W("counter_low", 7)>>
                 ELSE <<>>) \o
                <<W("counter_low", cap.lo), W("counter_high", cap.hi),
                  W("total_samples_high", 0), W("total_samples_low", 0),
                  W("index", 0)>>)
    /\ loc' = [loc EXCEPT !.based = 1, !.index = 0, !.counter_high = cap.hi,
                          !.counter_low = cap.lo, !.total_samples = U32(0, 0)]
    /\ UNCHANGED <<alternate_aux, BUSPIRATEV4, pc, ret, last, arg>>

\* One pass of the for loop: the next rising edge comes delta ticks after
\* the last one.
sample_capture(delta) ==
    /\ pc = "fc_sample"
    /\ loc.based = 1
    /\ loc.index < loc.f
    /\ LET current == captured(U32(loc.counter_high, loc.counter_low), delta)
           total == U32Add(loc.total_samples,
                           sample_delta(current, loc.counter_high,
                                        loc.counter_low))
       IN  /\ Continue(<<W("current_low", current.lo),
                         W("current_high", current.hi),
                         W("total_samples_high", total.hi),
                         W("total_samples_low", total.lo),
                         W("counter_high", current.hi),
                         W("counter_low", current.lo),
                         W("index", loc.index + 1)>>)
           /\ loc' = [loc EXCEPT !.index = @ + 1, !.counter_high = current.hi,
                                 !.counter_low = current.lo,
                                 !.total_samples = total]
    /\ UNCHANGED <<alternate_aux, BUSPIRATEV4, pc, ret, last, arg>>

sample_complete_one_short ==
    loc.based = 1 /\ loc.index >= 1 /\ loc.index + 1 >= loc.f

\* The for loop is left: index < count is false.
sample_complete == loc.based = 1 /\ loc.index >= loc.f

\* return total_samples / count, and what bp_frequency_counter_setup
\* does with it.
sample_return ==
    /\ pc = "fc_sample"
    /\ sample_complete
    /\ fc_sample_done(U32Div(loc.total_samples, loc.f))

(***************************************************************************)
(* bp_measure_frequency.  It waits in the coarse window ("mf_coarse") and  *)
(* in the window without prescaler ("mf_fine").                            *)
(***************************************************************************)
mf_finish == <<W("T2CKR", T2CKR_NONE), W("T4CON", 0), W("T2CON", 0)>>

measure_frequency ==
    <<W("T4CON", 0), W("T2CON", 0), W("BP_AUX0_DIR", INPUT),
      W("T2CKR", AUXPIN_RPIN), W("T2CON", TCS + T32 + TCKPS0 + TCKPS1)>> \o
    poll_start(TCS + T32 + TCKPS0 + TCKPS1, 0)

bp_measure_frequency ==
    /\ Enter(Call("bp_measure_frequency", <<>>, FALSE))
    /\ Commit(measure_frequency)
    /\ pc' = "mf_coarse"
    /\ ret' = <<>>
    /\ UNCHANGED <<alternate_aux, BUSPIRATEV4, loc, arg>>

mf_coarse_done(count) ==
    /\ pc = "mf_coarse"
    /\ T5IF = 1
    /\ LET stop == poll_end(T2CON, T4CON) \o poll_return(count)
           t2 == Final(stop, "T2CON", T2CON)
           a == BitOff(t2, TCKPS0)
           b == BitOff(a, TCKPS1)
       IN  IF count > 255
           THEN /\ Continue(stop \o mf_finish)
                /\ pc' = "idle"
                /\ ret' = <<count * 256>>
           ELSE /\ Continue(stop \o <<W("T2CON", a), W("T2CON", b)>> \o
                            poll_start(b, Final(stop, "T4CON", T4CON)))
                /\ pc' = "mf_fine"
                /\ ret' = ret
    /\ UNCHANGED <<alternate_aux, BUSPIRATEV4, loc, last, arg>>

mf_fine_done(count) ==
    /\ pc = "mf_fine"
    /\ T5IF = 1
    /\ Continue(poll_end(T2CON, T4CON) \o poll_return(count) \o mf_finish)
    /\ pc' = "idle"
    /\ ret' = <<count>>
    /\ UNCHANGED <<alternate_aux, BUSPIRATEV4, loc, last, arg>>

(***************************************************************************)
(* The inputs the checked runs draw from.                                  *)
(***************************************************************************)
\* Arguments of bp_update_pwm and bp_update_duty_cycle.
Frequencies == {0, 1000}

DutyCycles == {0, 50}

\* Command lines of the pwm command: none, and one in range.
PwmCommandLines == {<<>>, <<1000, 50>>}

\* The answers to its prompts, (frequency, duty cycle), if it prompts.
PwmAnswers == {<<50, 50>>}

\* Command lines of the servo command, and the answers to its prompts.
ServoCommandLines == {<<>>, <<90>>}

PromptAngles == {0, 180}

\* Edge counts of a one-second window with the 1:256 prescaler (both sides
\* of 0x3FFF) and without it (none, and both sides of 3999).
CoarseCounts == {16383, 16384}

\* The same for bp_measure_frequency: both sides of 0xFF, its threshold,
\* and of 0x3FFF.
MeasureCoarseCounts == {255, 256, 16383, 16384}

FineCounts == {0, 1, 3999, 4000}

\* Average periods average_sample_frequency returns: both sides of the
\* four thresholds, one inside a tier, and periods whose frequency has a
\* fraction that starts with zeros or is zero.
Periods ==
    {4001, 12649, 12650, 20000, 40000, 40001, 126491, 126492, 400000, 400001,
     1599990, 1600000}

\* more is cmdbuf[cmdstart + 1] # 0: a command line that holds numbers
\* has more, one that holds none may have more (blanks).
CommandLine(more, cmd) == cmd # <<>> => more

Next ==
    \/ \E f \in Frequencies, d \in DutyCycles : bp_update_pwm(f, d)
    \/ \E d \in DutyCycles : bp_update_duty_cycle(d)
    \/ \E more \in BOOLEAN, cmd \in PwmCommandLines, ans \in PwmAnswers :
          CommandLine(more, cmd) /\ bp_pwm_setup(more, cmd, ans[1], ans[2])
    \/ \E more \in BOOLEAN, cmd \in ServoCommandLines, a \in PromptAngles :
          CommandLine(more, cmd) /\ bp_servo_setup(more, cmd, a)
    \/ \E a \in PromptAngles \cup {-1} : servo_entry(a)
    \/ bp_aux_pin_set_high_impedance
    \/ bp_aux_pin_set_high
    \/ bp_aux_pin_set_low
    \/ \E level \in {LOW, HIGH} : bp_aux_pin_read(level)
    \/ bp_frequency_counter_setup
    \/ \E count \in CoarseCounts : fc_coarse_done(count)
    \/ \E count \in FineCounts : fc_fine_done(count)
    \/ \E p \in Periods : fc_sample_done(p)
    \/ bp_measure_frequency
    \/ \E count \in MeasureCoarseCounts : mf_coarse_done(count)
    \/ \E count \in FineCounts : mf_fine_done(count)
    \/ timer4_period_match

Spec == Init /\ [][Next]_vars

(***************************************************************************)
(* Runs that start, after reset, with one given call: bp_update_pwm with   *)
(* every frequency it accepts, the servo command with every angle, or the  *)
(* pwm command with numbers in and out of range.                           *)
(* bp_update_pwm is followed by a call that turns PWM off or changes the   *)
(* duty cycle; the servo command by the angles of its repeat-entry loop.   *)
(* None of these calls reads the build or the pin selection.               *)
(***************************************************************************)
FirstDutyCycles == {0, 1, 50, 99}

\* Numbers on the command line of the pwm command, in and out of range,
\* and the answers to its prompts, at the bounds getnumber() enforces.
FirstPwmFrequencies ==
    {0, 1, 3, 4, 30, 31, 244, 245, 1000, 3999, 4000, 4001, 65535}

FirstPwmDutyCycles == {0, 1, 50, 99, 100, 65535}

FirstPwmAnswers == {<<1, 0>>, <<50, 50>>, <<4000, 99>>}

\* Angles out of range on the command line of the servo command.
FirstServoRejects == {181, 65535}

FirstCalls ==
    {Call("bp_update_pwm", <<f, d>>, FALSE) :
        f \in 1 .. 3999, d \in FirstDutyCycles} \cup
    {Call("bp_servo_setup", <<a>>, TRUE) :
        a \in 0 .. 180 \cup FirstServoRejects} \cup
    {Call("bp_servo_setup", <<>>, FALSE)} \cup
    {Call("bp_pwm_setup", <<f, d>>, TRUE) :
        f \in FirstPwmFrequencies, d \in FirstPwmDutyCycles} \cup
    {Call("bp_pwm_setup", <<f>>, TRUE) : f \in FirstPwmFrequencies} \cup
    {Call("bp_pwm_setup", <<>>, more) : more \in BOOLEAN}

InitCalls ==
    /\ Reset
    /\ BUSPIRATEV4 = FALSE
    /\ alternate_aux = 0
    /\ arg \in FirstCalls

first_update_pwm ==
    /\ last = NoCall
    /\ arg.op = "bp_update_pwm"
    /\ bp_update_pwm(arg.args[1], arg.args[2])

first_servo_setup ==
    /\ last = NoCall
    /\ arg.op = "bp_servo_setup"
    /\ \E a \in 0 .. 180 : bp_servo_setup(arg.more, arg.args, a)

first_pwm_setup ==
    /\ last = NoCall
    /\ arg.op = "bp_pwm_setup"
    /\ \E ans \in FirstPwmAnswers :
          bp_pwm_setup(arg.more, arg.args, ans[1], ans[2])

then_pwm_off ==
    /\ last = arg
    /\ arg.op = "bp_update_pwm"
    /\ \E x \in DutyCycles : bp_update_pwm(0, x)

then_update_duty_cycle ==
    /\ last = arg
    /\ arg.op = "bp_update_pwm"
    /\ \E d \in FirstDutyCycles : bp_update_duty_cycle(d)

\* The servo command after bp_update_pwm programmed a frequency.
then_servo_setup ==
    /\ last = arg
    /\ arg.op = "bp_update_pwm"
    /\ \E a \in PromptAngles \cup {90} : bp_servo_setup(TRUE, <<a>>, a)

NextCalls ==
    \/ first_update_pwm
    \/ first_servo_setup
    \/ first_pwm_setup
    \/ then_pwm_off
    \/ then_update_duty_cycle
    \/ then_servo_setup
    \/ \E a \in PromptAngles \cup {-1} : servo_entry(a)

SpecCalls == InitCalls /\ [][NextCalls]_vars

(***************************************************************************)
(* Runs of one call of bp_update_pwm after reset, for every frequency and  *)
(* every duty cycle it accepts.                                            *)
(***************************************************************************)
InitUpdatePwm ==
    /\ Reset
    /\ BUSPIRATEV4 = FALSE
    /\ alternate_aux = 0
    /\ arg \in {Call("bp_update_pwm", <<f, d>>, FALSE) :
                   f \in 1 .. 3999, d \in 0 .. 99}

SpecUpdatePwm == InitUpdatePwm /\ [][first_update_pwm]_vars

(***************************************************************************)
(* Runs of the digital I/O calls with every value of alternate_aux up to   *)
(* MaxPinIndex, the values that name no pin of the build included.         *)
(***************************************************************************)
InitPins ==
    /\ Reset
    /\ BUSPIRATEV4 \in BOOLEAN
    /\ alternate_aux \in 0 .. MaxPinIndex
    /\ arg = NoCall

NextPins ==
    \/ bp_aux_pin_set_high_impedance
    \/ bp_aux_pin_set_high
    \/ bp_aux_pin_set_low
    \/ \E level \in {LOW, HIGH} : bp_aux_pin_read(level)

SpecPins == InitPins /\ [][NextPins]_vars

(***************************************************************************)
(* Runs of bp_frequency_counter_setup that follow the capture loop of the  *)
(* sampler, for edge counts up to MaxSamples.  The timers run on the       *)
(* instruction clock, so a window that was started ends; that the signal   *)
(* keeps its edges coming is the assumption of the fairness on the         *)
(* captures.                                                               *)
(***************************************************************************)
\* Edge counts of the two windows: no signal, a slow one, and fast ones.
SamplerCoarseCounts == {0, 16384}

SamplerFineCounts == 0 .. MaxSamples \cup {4000}

\* The timer at the baseline capture: at 0, before a carry of the low
\* word, and before the 32-bit timer wraps.
Baselines == {U32(0, 0), U32(0, 65000), U32(UINT16 - 1, 65000)}

\* Ticks of the 16 MHz timer between two rising edges.
Deltas == {4000, 40000, 70000}

InitSampler ==
    /\ Reset
    /\ BUSPIRATEV4 \in BOOLEAN
    /\ alternate_aux = 0
    /\ arg = NoCall

sampler_coarse_done == \E count \in SamplerCoarseCounts : fc_coarse_done(count)

sampler_fine_done == \E count \in SamplerFineCounts : fc_fine_done(count)

sampler_baseline ==
    \E stale \in BOOLEAN, cap \in Baselines : sample_baseline(stale, cap)

sampler_capture == \E delta \in Deltas : sample_capture(delta)

NextSampler ==
    \/ bp_frequency_counter_setup
    \/ timer4_period_match
    \/ sampler_coarse_done
    \/ sampler_fine_done
    \/ sampler_baseline
    \/ sampler_capture
    \/ sample_return

SpecSampler ==
    /\ InitSampler
    /\ [][NextSampler]_vars
    /\ WF_vars(timer4_period_match)
    /\ WF_vars(sampler_coarse_done)
    /\ WF_vars(sampler_fine_done)
    /\ WF_vars(sampler_baseline)
    /\ WF_vars(sampler_capture)
    /\ WF_vars(sample_return)

(***************************************************************************)
(* Properties.                                                             *)
(***************************************************************************)
\* Frequency counting holds the shared timers: timer 2 is clocked from the
\* AUX pin, or a caller waits in a counting window or a capture loop.
FrequencyCounting ==
    \/ T2CKR = AUXPIN_RPIN
    \/ pc \in {"fc_coarse", "fc_fine", "fc_sample", "mf_coarse", "mf_fine"}

\* C1: in no reachable state does frequency counting hold timer 2 and
\* timer 4 while AuxState.mode is PWM.
C1_NoCountingWhilePwm ==
    ~(FrequencyCounting /\ state.mode = AUX_MODE_PWM)

Registers ==
    <<T2CON, T4CON, PR2, OC5CON, OC5R, OC5RS, AUXPIN_RPOUT, T2CKR, ICR, ICCON,
      T5IF, DIR, LAT>>

\* C2: bp_frequency_counter_setup called while mode is PWM prints the
\* "unavailable while PWM is active" message (BPMSG1037) and nothing else,
\* starts no counting window and changes no register and no field of state.
C2_RefusedWhilePwm ==
    [][(/\ pc = "idle"
        /\ state.mode = AUX_MODE_PWM
        /\ last'.op = "bp_frequency_counter_setup")
       => (/\ log' = <<MSG(1037)>>
           /\ pc' = "idle"
           /\ UNCHANGED <<state, Registers>>)]_vars

C2_Witness ==
    /\ pc = "idle"
    /\ last.op = "bp_frequency_counter_setup"
    /\ log = <<MSG(1037)>>
    /\ state.mode = AUX_MODE_PWM
    /\ BitIsSet(T2CON, TON)

\* C3: between two calls, mode IO implies that no peripheral drives the
\* AUX pin (AUXPIN_RPOUT is 0).
C3_IoModeDetached ==
    pc = "idle" => (state.mode = AUX_MODE_IO => AUXPIN_RPOUT = 0)

\* bp_update_pwm(0, x) has turned off a PWM that was running.
C3_Witness ==
    /\ pc = "idle"
    /\ last.op = "bp_update_pwm"
    /\ last.args[1] = 0
    /\ state.mode = AUX_MODE_IO
    /\ AUXPIN_RPOUT = 0
    /\ OC5R # 0

\* C4: bp_update_pwm(f, d) with 0 < f < 4000 and 0 <= d <= 99, followed by
\* bp_update_pwm(0, x), leaves mode IO, the AUX pin detached and timer 2,
\* timer 4 and output compare 5 stopped.
C4_OffAfterOn ==
    (/\ arg.op = "bp_update_pwm"
     /\ last.op = "bp_update_pwm"
     /\ last.args[1] = 0)
    => (/\ state.mode = AUX_MODE_IO
        /\ AUXPIN_RPOUT = 0
        /\ T2CON = 0
        /\ T4CON = 0
        /\ OC5CON = 0)

C4_Witness ==
    /\ arg = Call("bp_update_pwm", <<1000, 50>>, FALSE)
    /\ last = Call("bp_update_pwm", <<0, 50>>, FALSE)
    /\ PR2 = 15
    /\ state.mode = AUX_MODE_IO
    /\ AUXPIN_RPOUT = 0

\* C5: between two calls, state.pwm_frequency is 0 exactly when mode is
\* not PWM.
C5_FrequencyZeroIffNotPwm ==
    pc = "idle" => (state.pwm_frequency = 0 <=> state.mode # AUX_MODE_PWM)

\* C6: right after bp_update_pwm(F, D) the state holds F, D and mode PWM;
\* a following bp_update_duty_cycle(D2) keeps F and stores D2.
C6_RoundTrip ==
    /\ (arg.op = "bp_update_pwm" /\ last = arg)
       => state = [pwm_frequency |-> arg.args[1],
                   pwm_duty_cycle |-> arg.args[2],
                   mode |-> AUX_MODE_PWM]
    /\ (arg.op = "bp_update_pwm" /\ last.op = "bp_update_duty_cycle")
       => (/\ state.pwm_frequency = arg.args[1]
           /\ state.pwm_duty_cycle = last.args[1])

C6_Witness ==
    /\ arg = Call("bp_update_pwm", <<1000, 50>>, FALSE)
    /\ last = Call("bp_update_duty_cycle", <<99>>, FALSE)
    /\ state.pwm_frequency = 1000
    /\ state.pwm_duty_cycle = 99

\* The prescaler tiers as documented: divisor and TCKPS bits.
TierDivisor(f) ==
    CASE f \in 1 .. 3 -> 62
      [] f \in 4 .. 30 -> 250
      [] f \in 31 .. 244 -> 2000
      [] f \in 245 .. 3999 -> 16000

TierBits(f) ==
    CASE f \in 1 .. 3 -> TCKPS1 + TCKPS0
      [] f \in 4 .. 30 -> TCKPS1
      [] f \in 31 .. 244 -> TCKPS0
      [] f \in 245 .. 3999 -> 0

\* C7: for every frequency f in 1 .. 3999 setup_prescaler_divisor returns
\* the divisor of f's tier and leaves the prescaler bits of that tier in
\* T2CON: 62 and 11 below 4, 250 and 10 below 31, 2000 and 01 below 245,
\* 16000 and 00 from 245 on.
C7_PrescalerTiers ==
    (arg.op = "bp_update_pwm" /\ last = arg)
    => LET f == arg.args[1]
           p == setup_prescaler_divisor(f, 0)
       IN  /\ p.divisor = TierDivisor(f)
           /\ AfterPrescaler(p) = TierBits(f)
           /\ T2CON = TON + TierBits(f)

C7_Witness ==
    /\ arg.op = "bp_update_pwm"
    /\ last = arg
    /\ arg.args[1] = 244
    /\ T2CON = TON + TCKPS0
    /\ PR2 = 7

\* C8: for every f in 1 .. 3999 and d in 0 .. 99, bp_update_pwm(f, d)
\* leaves PR2 = divisor(f) div f - 1 and OC5R = OC5RS = (PR2 * d) div 100,
\* the AUX pin driven by output compare 5, OC5CON = 6 and timer 2 on;
\* (1000, 50) gives period 15 and on time 7.
C8_PwmRegisters ==
    (arg.op = "bp_update_pwm" /\ last = arg)
    => LET f == arg.args[1]
           d == arg.args[2]
       IN  /\ PR2 = (TierDivisor(f) \div f) - 1
           /\ OC5R = (PR2 * d) \div 100
           /\ OC5RS = OC5R
           /\ AUXPIN_RPOUT = OC5_IO
           /\ OC5CON = 6
           /\ BitIsSet(T2CON, TON)
           /\ (f = 1000 /\ d = 50) => (PR2 = 15 /\ OC5R = 7)

C8_Witness ==
    /\ arg = Call("bp_update_pwm", <<1000, 50>>, FALSE)
    /\ last = arg
    /\ PR2 = 15
    /\ OC5R = 7
    /\ OC5RS = 7

\* The angle the servo command programmed last: the last answer of a
\* prompt, or the number of the command line if it did not prompt.
Answers == {i \in DOMAIN log : log[i].reg = "getnumber" /\ log[i].val >= 0}

ServoAngle ==
    IF Answers = {} THEN last.args[1]
    ELSE log[CHOOSE i \in Answers : \A j \in Answers : j <= i].val

\* C9: for every angle in 0 .. 180 bp_servo_setup leaves
\* OC5R = OC5RS = (1250 * angle) div 3500 + 62; the value does not
\* decrease as the angle grows, is 62 at 0 and 94 at 90.
C9_ServoOnTime ==
    (last.op = "bp_servo_setup" /\ state.mode = AUX_MODE_PWM)
    => (/\ OC5R = ((1250 * ServoAngle) \div 3500) + 62
        /\ OC5RS = OC5R
        /\ ServoAngle < 180 => OC5R <= servo_dutycycle(1250, ServoAngle + 1)
        /\ ServoAngle = 0 => OC5R = 62
        /\ ServoAngle = 90 => OC5R = 94)

C9_Witness ==
    /\ last = Call("bp_servo_setup", <<90>>, TRUE)
    /\ pc = "idle"
    /\ state.mode = AUX_MODE_PWM
    /\ OC5R = 94
    /\ OC5RS = 94

PwmRegisterWrites(w) ==
    {i \in DOMAIN w : w[i].reg \in {"PR2", "OC5R", "OC5RS"}
                      \/ (w[i].reg \in {"OC5CON", "T2CON"} /\ w[i].val # 0)
                      \/ (w[i].reg = "AUXPIN_RPOUT" /\ w[i].val # 0)}

\* C10: bp_pwm_setup or bp_servo_setup called while mode is PWM with
\* nothing after the command stops PWM (timer 2, timer 4 and output
\* compare 5 cleared, the AUX pin detached, mode IO, BPMSG1028 printed) and
\* returns without a prompt and without a write that programs PWM; called
\* in that state with something after the command it leaves mode PWM.
C10_ToggleOff ==
    [][(/\ pc = "idle"
        /\ state.mode = AUX_MODE_PWM
        /\ last'.op \in {"bp_pwm_setup", "bp_servo_setup"})
       => IF ~last'.more
          THEN /\ T2CON' = 0
               /\ T4CON' = 0
               /\ OC5CON' = 0
               /\ AUXPIN_RPOUT' = 0
               /\ state'.mode = AUX_MODE_IO
               /\ pc' = "idle"
               /\ \E i \in DOMAIN log' : log'[i] = MSG(1028)
               /\ \A i \in DOMAIN log' : log'[i].reg # "getnumber"
               /\ PwmRegisterWrites(log') = {}
          ELSE state'.mode = AUX_MODE_PWM]_vars

C10_Witness ==
    /\ pc = "idle"
    /\ last = Call("bp_servo_setup", <<>>, FALSE)
    /\ \E i \in DOMAIN log : log[i] = MSG(1028)
    /\ state.mode = AUX_MODE_IO
    /\ AUXPIN_RPOUT = 0
    /\ T2CON = 0
    /\ OC5R # 0

\* The counts poll_frequency_counter_value returned to the call, in order.
IsPollCount(e) == e.reg = "poll_frequency_counter_value"

PollCounts == SelectSeq(log, IsPollCount)

Entries(reg) == {i \in DOMAIN log : log[i].reg = reg}

\* The edge count bp_frequency_counter_setup goes on with after its
\* windows: the argument of the sampler if it called it, 0 if it reported
\* "too low", and else the number it printed.
FinalCount ==
    IF Entries("average_sample_frequency") # {}
    THEN log[CHOOSE i \in Entries("average_sample_frequency") : TRUE].val
    ELSE IF Entries("MSG_PWM_FREQUENCY_TOO_LOW") # {} THEN 0
    ELSE log[CHOOSE i \in Entries("bp_write_dec_dword_friendly") : TRUE].val

\* A measurement is through its counting windows.
Counted(op) ==
    /\ last.op = op
    /\ pc \in {"idle", "fc_sample"}
    /\ PollCounts # <<>>

\* C11: in bp_frequency_counter_setup and in bp_measure_frequency, a coarse
\* count above 0x3FFF gives the coarse count times 256 without a second
\* window; a coarse count up to 0x3FFF gives exactly one second window,
\* whose count is the result.
C11_Autorange ==
    \A op \in {"bp_frequency_counter_setup", "bp_measure_frequency"} :
        Counted(op)
        => LET c == PollCounts
               result == IF op = "bp_measure_frequency" THEN ret[1]
                         ELSE FinalCount
           IN  IF c[1].val > 16383
               THEN Len(c) = 1 /\ result = c[1].val * 256
               ELSE Len(c) = 2 /\ result = c[2].val

\* The characters sent after the decimal point.
AfterPoint ==
    LET dot == CHOOSE i \in DOMAIN log : log[i] = W("UART1TX", 46)
    IN  {i \in Entries("UART1TX") : i > dot}

PeriodPrinted ==
    /\ pc = "idle"
    /\ last.op = "bp_frequency_counter_setup"
    /\ Entries("p") # {}

Period == log[CHOOSE i \in Entries("p") : TRUE].val

FractionDigits(p) ==
    CASE p > 400000 -> 5
      [] p > 126491 /\ p <= 400000 -> 4
      [] p > 40000 /\ p <= 126491 -> 3
      [] p > 12649 /\ p <= 40000 -> 2
      [] OTHER -> 1

\* C12: for the average period p the sampler returns,
\* bp_frequency_counter_setup prints one decimal point followed by exactly
\* 5 digits if p > 400000, 4 if 126491 < p <= 400000, 3 if
\* 40000 < p <= 126491, 2 if 12649 < p <= 40000 and 1 otherwise, zeros
\* included.
C12_ResolutionTiers ==
    PeriodPrinted
    => (/\ Cardinality({i \in DOMAIN log : log[i] = W("UART1TX", 46)}) = 1
        /\ Cardinality(AfterPoint) = FractionDigits(Period)
        /\ \A i \in AfterPoint : log[i].val \in 48 .. 57)

\* 16e11 / 1599990 = 1000006: 10.00006 is printed.
C12_Witness ==
    /\ PeriodPrinted
    /\ Period = 1599990
    /\ Cardinality(AfterPoint) = 5
    /\ Cardinality({i \in AfterPoint : log[i].val = 48}) = 4

\* C13: when bp_frequency_counter_setup returns after it started a
\* measurement, the timer 2 clock input and the inputs of capture units 1
\* and 2 are not routed to the AUX pin, and T2CON = 0 and T4CON = 0.
C13_Teardown ==
    (Counted("bp_frequency_counter_setup") /\ pc = "idle")
    => (/\ T2CKR = T2CKR_NONE
        /\ ICR.IC1R # AUXPIN_RPIN
        /\ ICR.IC2R # AUXPIN_RPIN
        /\ T2CON = 0
        /\ T4CON = 0)

PinOps ==
    {"bp_aux_pin_set_high", "bp_aux_pin_set_low",
     "bp_aux_pin_set_high_impedance", "bp_aux_pin_read"}

\* The physical pin the selection names.
AuxPin ==
    CASE alternate_aux = 0 -> "BP_AUX0"
      [] alternate_aux = 1 -> "BP_CS"
      [] alternate_aux = 2 -> "BP_AUX1"
      [] alternate_aux = 3 -> "BP_AUX2"

\* C14: bp_aux_pin_set_high, bp_aux_pin_set_low,
\* bp_aux_pin_set_high_impedance and bp_aux_pin_read change only the
\* direction and level of the pin alternate_aux selects (output and high,
\* output and low, input, input); state, the timer, output compare and
\* capture registers, the routing and every other pin stay as they are,
\* in every mode.
C14_DigitalFrame ==
    [][(pc = "idle" /\ last'.op \in PinOps)
       => (/\ UNCHANGED <<state, T2CON, T4CON, OC5CON, PR2, OC5R, OC5RS,
                          AUXPIN_RPOUT, T2CKR, ICR, ICCON, T5IF>>
           /\ \A q \in Pins \ {AuxPin} : DIR'[q] = DIR[q] /\ LAT'[q] = LAT[q]
           /\ CASE last'.op = "bp_aux_pin_set_high" ->
                     DIR'[AuxPin] = OUTPUT /\ LAT'[AuxPin] = HIGH
                [] last'.op = "bp_aux_pin_set_low" ->
                     DIR'[AuxPin] = OUTPUT /\ LAT'[AuxPin] = LOW
                [] OTHER ->
                     DIR'[AuxPin] = INPUT /\ LAT'[AuxPin] = LAT[AuxPin])]_vars

\* AUX1 was driven high while PWM runs on the AUX pin.
C14_Witness ==
    /\ pc = "idle"
    /\ last.op = "bp_aux_pin_set_high"
    /\ alternate_aux = 2
    /\ DIR["BP_AUX1"] = OUTPUT
    /\ LAT["BP_AUX1"] = HIGH
    /\ DIR["BP_AUX0"] = INPUT
    /\ state.mode = AUX_MODE_PWM
    /\ BitIsSet(T2CON, TON)

\* The value the local holds when the write at index i of the log is made.
Local(name, i) ==
    LET at == {j \in Entries(name) : j < i}
    IN  log[CHOOSE j \in at : \A k \in at : k <= j].val

Programmed == Entries("PR2") \cup Entries("OC5R") \cup Entries("OC5RS")

IsPwmWrite(e) ==
    \/ e.reg \in {"PR2", "OC5R", "OC5RS"}
    \/ e.reg = "OC5CON" /\ e.val = OC_PWM_MODE
    \/ e.reg = "T2CON" /\ e.val # 0 /\ ~BitIsSet(e.val, TON)

\* The write at index j turns timer 2 on: TON is set and was not.
Enables(j) ==
    /\ log[j].reg = "T2CON"
    /\ BitIsSet(log[j].val, TON)
    /\ LET before == {k \in Entries("T2CON") : k < j}
       IN  before # {}
           /\ ~BitIsSet(log[CHOOSE k \in before : \A l \in before : l <= k].val,
                        TON)

\* C16: in bp_update_pwm, bp_pwm_setup and bp_servo_setup, every write of a
\* PWM register comes after T2CON = 0, T4CON = 0 and OC5CON = 0 were
\* written since timer 2 was last turned on.
C16_ClearedBeforeProgramming ==
    last.op \in {"bp_update_pwm", "bp_update_duty_cycle", "bp_pwm_setup",
                 "bp_servo_setup"}
    => \A i \in DOMAIN log :
          IsPwmWrite(log[i])
          => LET on == {j \in 1 .. i - 1 : Enables(j)}
                 since == IF on = {} THEN 0
                          ELSE CHOOSE j \in on : \A k \in on : k <= j
             IN  \A reg \in {"T2CON", "T4CON", "OC5CON"} :
                    \E j \in since + 1 .. i - 1 : log[j] = W(reg, 0)

\* C17: an operation that takes the mode from PWM to IO writes
\* AUXPIN_RPOUT = 0 before it clears state.pwm_frequency, and
\* state.pwm_frequency is 0 when it returns.
C17_DetachBeforeClear ==
    [][(pc = "idle" /\ state.mode = AUX_MODE_PWM /\ state'.mode = AUX_MODE_IO)
       => (/\ state'.pwm_frequency = 0
           /\ \A j \in DOMAIN log' :
                 log'[j] = W("pwm_frequency", 0)
                 => \E i \in 1 .. j - 1 : log'[i] = W("AUXPIN_RPOUT", 0))]_vars

ServoProgrammed ==
    /\ last.op = "bp_servo_setup"
    /\ state.mode = AUX_MODE_PWM

PrescalerBits == (T2CON \div TCKPS0) % 4

\* C18 as stated: bp_servo_setup leaves the prescaler bits of the 1:64
\* tier of setup_prescaler_divisor in T2CON, and PR2 = 1250.
C18_ServoCarrier_1_64 ==
    ServoProgrammed
    => (/\ T2CON = TON + AfterPrescaler(setup_prescaler_divisor(4, 0))
        /\ PrescalerBits = 2
        /\ PR2 = 1250)

\* C18, amended: for every angle in 0 .. 180 and whatever PWM frequency
\* was programmed before, bp_servo_setup leaves timer 2 on with the
\* prescaler bits 11 of the 1:256 tier of setup_prescaler_divisor, and
\* PR2 = 1250.
C18_ServoCarrier ==
    ServoProgrammed
    => (/\ T2CON = TON + AfterPrescaler(setup_prescaler_divisor(1, 0))
        /\ PrescalerBits = 3
        /\ PR2 = 1250)

\* The servo command after bp_update_pwm(1000, d) had chosen the 1:1 tier.
C18_Witness ==
    /\ arg.op = "bp_update_pwm"
    /\ arg.args[1] = 1000
    /\ last = Call("bp_servo_setup", <<90>>, TRUE)
    /\ state.pwm_frequency = 1000
    /\ T2CON = TON + TCKPS1 + TCKPS0
    /\ PR2 = 1250

\* C19: with f the final edge count of bp_frequency_counter_setup: f > 3999
\* prints f and never calls the sampler; 1 <= f <= 3999 calls
\* average_sample_frequency exactly once, with count f; f = 0 reports
\* "frequency too low", prints no number and never calls the sampler.
C19_ResolutionSwitch ==
    Counted("bp_frequency_counter_setup")
    => LET c == PollCounts
           f == IF c[1].val > 16383 THEN c[1].val * 256 ELSE c[Len(c)].val
           calls == Entries("average_sample_frequency")
           numbers == Entries("bp_write_dec_dword_friendly") \cup
                      Entries("UART1TX")
       IN  /\ f > 3999
              => (/\ calls = {}
                  /\ pc = "idle"
                  /\ \E i \in DOMAIN log :
                        log[i] = W("bp_write_dec_dword_friendly", f)
                  /\ Entries("UART1TX") = {})
           /\ (f >= 1 /\ f <= 3999)
              => (/\ Cardinality(calls) = 1
                  /\ \A i \in calls : log[i].val = f)
           /\ f = 0
              => (/\ calls = {}
                  /\ pc = "idle"
                  /\ Entries("MSG_PWM_FREQUENCY_TOO_LOW") # {}
                  /\ numbers = {})
           /\ \A i \in calls : log[i].val >= 1

\* The sampler runs with count 3999.
C19_Witness ==
    /\ pc = "fc_sample"
    /\ last.op = "bp_frequency_counter_setup"
    /\ Len(PollCounts) = 2
    /\ PollCounts[2].val = 3999
    /\ \E i \in DOMAIN log : log[i] = W("average_sample_frequency", 3999)

\* C20 as stated: an average period of 20000 is printed with exactly one
\* decimal place.
C20_OneDecimal ==
    (PeriodPrinted /\ Period = 20000) => Cardinality(AfterPoint) = 1

\* C20, amended: an average period of 20000 (12649 < p <= 40000) is
\* printed with exactly two decimal places.
C20_TwoDecimals ==
    (PeriodPrinted /\ Period = 20000)
    => (/\ Cardinality(AfterPoint) = 2
        /\ \A i \in AfterPoint : log[i].val \in 48 .. 57)

\* 16e8 / 20000 = 80000: 800.00 is printed.
C20_Witness ==
    /\ PeriodPrinted
    /\ Period = 20000
    /\ \E i \in DOMAIN log : log[i] = W("bp_write_dec_dword_friendly", 800)
    /\ \A i \in AfterPoint : log[i].val = 48
    /\ Cardinality(AfterPoint) = 2

\* The values of alternate_aux that name a pin of the build.
ValidPinIndex == IF BUSPIRATEV4 THEN 0 .. 3 ELSE 0 .. 1

\* C23: with alternate_aux outside the pins of the build, bp_aux_pin_read
\* returns LOW and samples no pin: it makes no pin an input to read it.
C23_InvalidIndexReadsLow ==
    (last.op = "bp_aux_pin_read" /\ alternate_aux \notin ValidPinIndex)
    => (/\ ret = <<LOW>>
        /\ \A p \in Pins : Entries(DirReg(p)) = {})

\* C24: for every f in 1 .. 3999 and d in 0 .. 99, in 16-bit unsigned
\* arithmetic: divisor(f) div f >= 1, so that the period
\* divisor(f) div f - 1 does not wrap; period * d is below 2^16; and the
\* on time programmed is at most the period, and below it when the period
\* is not 0.
C24_InRange ==
    (arg.op = "bp_update_pwm" /\ last = arg)
    => LET f == arg.args[1]
           d == arg.args[2]
           q == TierDivisor(f) \div f
       IN  /\ q >= 1
           /\ PR2 = q - 1
           /\ PR2 * d < UINT16
           /\ OC5R >= 0
           /\ OC5R <= PR2
           /\ PR2 > 0 => OC5R < PR2

\* The smallest period, with the largest duty cycle.
C24_Witness ==
    /\ arg = Call("bp_update_pwm", <<3999, 99>>, FALSE)
    /\ last = arg
    /\ PR2 = 3
    /\ OC5R = 2


(***************************************************************************)
(* The capture loop of the sampler, read off the log of a run of           *)
(* SpecSampler.                                                            *)
(***************************************************************************)
Sampling ==
    /\ last.op = "bp_frequency_counter_setup"
    /\ Entries("counter_high") # {}

\* The captures the sampler kept: the baseline and one per pass of the
\* loop.
Captures == Entries("counter_high")

BaselineAt == CHOOSE i \in Captures : \A j \in Captures : i <= j

LastAt == CHOOSE i \in Captures : \A j \in Captures : j <= i

\* The combined capture at a "counter_high" entry, as its two words: the
\* baseline reads its low word first, a pass of the loop stores it after.
Combined(i) ==
    [hi |-> log[i].val,
     lo |-> IF i = BaselineAt THEN log[i - 1].val ELSE log[i + 1].val]

\* (a - b) mod 2^32 of two combined captures, word by word with a borrow.
Diff32(a, b) ==
    LET borrow == IF a.lo < b.lo THEN 1 ELSE 0
    IN  [hi |-> (UINT16 + UINT16 + a.hi - b.hi - borrow) % UINT16,
         lo |-> (UINT16 + a.lo - b.lo) % UINT16]

Total ==
    [hi |-> Local("total_samples_high", Len(log) + 1),
     lo |-> Local("total_samples_low", Len(log) + 1)]

\* C21: average_sample_frequency(count), count >= 1, takes one baseline
\* capture and then exactly count further captures; its total is (last
\* combined capture - baseline combined capture) mod 2^32, with combined =
\* high word * 65536 + low word, also when the low word wrapped between two
\* captures; it returns total div count.
C21_SamplerAverage ==
    Sampling =>
        /\ FinalCount >= 1
        /\ Total = Diff32(Combined(LastAt), Combined(BaselineAt))
        /\ Cardinality(Captures) <= FinalCount + 1
        /\ Entries("p") # {} =>
              /\ Cardinality(Captures) = FinalCount + 1
              /\ Total.hi < 32768
              /\ Period = ((Total.hi * UINT16) + Total.lo) \div FinalCount

C21_Witness ==
    /\ Sampling
    /\ Entries("p") # {}
    /\ FinalCount = 3
    /\ Combined(BaselineAt) = [hi |-> UINT16 - 1, lo |-> 65000]
    /\ Combined(LastAt) = [hi |-> 1, lo |-> 47928]
    /\ Period = 38000

\* average_sample_frequency waits in its capture loop.
Blocked == pc = "fc_sample"

\* C22: average_sample_frequency(count) returns if and only if at least
\* count + 1 capture events arrive after the flush.  It has no timeout: a
\* step of the blocked call is a capture, or the return once count + 1
\* captures are in, so with no further edge the call stays blocked and the
\* teardown of bp_frequency_counter_setup is not reached; with the edges
\* coming it returns.  A counting window of poll_frequency_counter_value
\* ends once the timer 4/5 flag is set, whatever the signal counted.
C22_SamplerBlocks ==
    /\ [][Blocked =>
            IF Blocked'
            THEN Cardinality(Captures') = Cardinality(Captures) + 1
            ELSE /\ Cardinality(Captures) = loc.f + 1
                 /\ pc' = "idle"]_vars
    /\ [](Blocked => /\ T2CKR = AUXPIN_RPIN
                     /\ Entries("MSG_PWM_HZ_MARKER") = {})
    /\ (Blocked ~> pc = "idle")
    /\ (pc = "fc_coarse" ~> pc # "fc_coarse")
    /\ (pc = "fc_fine" ~> pc # "fc_fine")

C22_Witness ==
    /\ pc = "idle"
    /\ Sampling
    /\ FinalCount = 2
    /\ Cardinality(Captures) = 3
    /\ Entries("p") # {}
    /\ T2CKR = T2CKR_NONE
====
